---- MODULE Spec2Model ----
(***************************************************************************)
(* The pipeline supervisor of cam-ui (src/video.rs, spawn_gst_thread) and  *)
(* the recording-branch attach/detach of src/video/record.rs               *)
(* (start_recording, stop_recording), as a state machine.                  *)
(*                                                                         *)
(* Threads: the supervisor thread (the closure of spawn_gst_thread), the   *)
(* GStreamer streaming thread (which runs a deferred IDLE pad probe), and  *)
(* one cleanup worker per teardown (std::thread::spawn in the probe).      *)
(* Commands reach the supervisor through the unbounded channel rec_cmd_rx. *)
(*                                                                         *)
(* A recording branch is identified by the number of the start_recording   *)
(* call that built it; the tee request pads of that call carry the same    *)
(* number.  record.rs takes a video tee and an audio tee; the call sites in *)
(* video.rs pass the pipeline's one tee.  The model keeps the two request  *)
(* pads of record.rs apart (v_pads, a_pads).                               *)
(***************************************************************************)
EXTENDS Integers, Sequences, FiniteSets

\* Number of commands the environment submits in one run.
MaxCmds == 4

\* Number of samples the capture graph delivers in one run.
MaxFrames == 3

VARIABLES
    rec_cmd_rx,         \* commands in the channel, oldest first
    current_recording,  \* Option<ActiveRecording>: <<>> or <<handle>>
    pc,                 \* supervisor position: "drain","poll","polled","exiting","done"
    msg,                \* what bus.timed_pop returned, "none" outside the match
    pipeline_state,     \* "Playing" or "Null"
    bins,               \* branches that are children of the pipeline
    playing,            \* branches whose state was synced to Playing
    v_ghost, a_ghost,   \* branches that carry ghost pad v_sink / a_sink
    v_pads, a_pads,     \* request pads held on the video / audio tee
    v_links, a_links,   \* tee pads linked to the branch's ghost pads
    eos,                \* branches that were sent the EOS event
    probes,             \* armed IDLE probes (one per pending teardown)
    workers,            \* cleanup workers inside their grace period
    submitted,          \* history: every command sent, in order
    handled,            \* history: every command received, in order
    start_calls,        \* history: number of start_recording calls
    attached_ever,      \* history: branches whose start_recording returned Ok
    teardowns,          \* history: branches passed to stop_recording
    stop_started,       \* history: branches torn down by a Stop command
    err_log,            \* history: number of "Start Rec Error" reports
    last_op,            \* history: outcome of the last command handled
    exit_held,          \* history: the handle held when the loop exited
    mutlog,             \* history: <<mutation, thread>> pairs seen so far
    tlog,               \* history: per branch, its teardown steps <<step, thread>> in order
    null_calls,         \* history: number of pipeline.set_state(Null) calls
    is_recording,       \* CameraApp.is_recording
    ui_sent,            \* history: every command the UI passed to rec_cmd_tx.send
    frame_buffer,       \* Arc<Mutex<Option<ColorImage>>>: <<>> or <<frame>>
    texture,            \* CameraApp.texture: <<>> or <<frame>>
    audio_level,        \* Arc<Mutex<f32>>
    current_level,      \* the level update() read last, <<>> before the first read
    ui_pc,              \* position of update() in its display part: "level","frame"
    produced,           \* history: number of new_sample callbacks so far
    published,          \* history: the frame stored last by new_sample, 0 if none
    last_take,          \* history: what the last take() returned and what was published then
    dropped             \* history: frames overwritten in the slot before any take

chanVars  == <<rec_cmd_rx, submitted>>
supVars   == <<current_recording, pc, pipeline_state>>
graphVars == <<bins, playing, v_ghost, a_ghost, v_pads, a_pads, v_links, a_links, eos>>
tearVars  == <<probes, workers>>
histVars  == <<handled, start_calls, attached_ever, teardowns, stop_started,
               err_log, last_op, exit_held>>
pollVars  == <<msg, null_calls>>
uiVars    == <<is_recording, ui_sent>>
dispVars  == <<frame_buffer, texture, audio_level, current_level, ui_pc, produced,
               published, last_take, dropped>>
envVars   == <<uiVars, dispVars>>
vars == <<chanVars, supVars, graphVars, tearVars, histVars, mutlog, tlog, pollVars, envVars>>

\* Option<T>
None == <<>>
Some(x) == <<x>>

\* RecordCommand; the settings of a Start select element names only and do
\* not reach the control flow.
RecordCommand == {"Start", "Stop"}

\* struct ActiveRecording of the branch built by call b
ActiveRecording(b) == [bin |-> b, video_tee_pad |-> b, audio_tee_pad |-> b]

\* One bin per start_recording call; at most MaxCmds commands are handled.
BinIds == 1..MaxCmds

\* The threads that can touch the graph.
SupervisorThread == "supervisor"
StreamingThread == "streaming"
WorkerThread == "worker"

\* Where start_recording can return Err (each `?`), in program order, and Ok.
StartOutcomes == {"parse", "add", "v_ghost", "a_ghost", "v_link", "a_link", "sync", "ok"}

\* Position of an outcome in start_recording: the steps before it succeeded.
Rank(o) ==
    CASE o = "parse"   -> 1
      [] o = "add"     -> 2
      [] o = "v_ghost" -> 3
      [] o = "a_ghost" -> 4
      [] o = "v_link"  -> 5
      [] o = "a_link"  -> 6
      [] o = "sync"    -> 7
      [] o = "ok"      -> 8

\* Messages bus.timed_pop can return: nothing (timeout), a message the match
\* ignores, Error, Eos.
BusPolls == {"timeout", "other", "Error", "Eos"}

\* The arms of `match msg.view()` that break out of the loop.
IsFatalOnlyError(m) == m = "Error"
IsFatal(m) == m \in {"Error", "Eos"}

TypeOK ==
    /\ rec_cmd_rx \in Seq(RecordCommand)
    /\ current_recording \in {None} \cup {Some(ActiveRecording(b)) : b \in BinIds}
    /\ pc \in {"drain", "poll", "polled", "exiting", "done"}
    /\ msg \in BusPolls \cup {"none"}
    /\ pipeline_state \in {"Playing", "Null"}
    /\ \A s \in {bins, playing, v_ghost, a_ghost, v_pads, a_pads, v_links, a_links,
                 eos, probes, workers, attached_ever, stop_started} : s \subseteq BinIds

\* Arc::new(Mutex::new(-60.0f32)) of main()
InitAudioLevel == -60

\* State after pipeline.set_state(Playing) and `current_recording = None`,
\* with the channel of main() still empty.
Init ==
    /\ rec_cmd_rx = <<>>
    /\ submitted = <<>>
    /\ current_recording = None
    /\ pc = "drain"
    /\ pipeline_state = "Playing"
    /\ bins = {} /\ playing = {}
    /\ v_ghost = {} /\ a_ghost = {}
    /\ v_pads = {} /\ a_pads = {}
    /\ v_links = {} /\ a_links = {}
    /\ eos = {}
    /\ probes = {} /\ workers = {}
    /\ handled = <<>>
    /\ start_calls = 0
    /\ attached_ever = {}
    /\ teardowns = <<>>
    /\ stop_started = {}
    /\ err_log = 0
    /\ last_op = "none"
    /\ exit_held = None
    /\ mutlog = {}
    /\ tlog = [b \in BinIds |-> <<>>]
    /\ msg = "none"
    /\ null_calls = 0
    /\ is_recording = FALSE
    /\ ui_sent = <<>>
    /\ frame_buffer = None
    /\ texture = None
    /\ audio_level = InitAudioLevel
    /\ current_level = None
    /\ ui_pc = "level"
    /\ produced = 0
    /\ published = 0
    /\ last_take = None
    /\ dropped = {}

\* rec_cmd_tx.send(cmd): any holder of the sender may submit any command. Once
\* the supervisor closure has returned the receiver is dropped and send fails.
Submit(c) ==
    /\ pc # "done"
    /\ Len(submitted) < MaxCmds
    /\ rec_cmd_rx' = Append(rec_cmd_rx, c)
    /\ submitted' = Append(submitted, c)
    /\ UNCHANGED <<supVars, graphVars, tearVars, histVars, mutlog, tlog, pollVars, envVars>>

\* rec_cmd_rx.try_recv() on a non-empty channel: the oldest command, and what
\* stays queued.
TryRecvLifo(q) == [cmd |-> q[Len(q)], rest |-> SubSeq(q, 1, Len(q) - 1)]
TryRecv(q) == [cmd |-> Head(q), rest |-> Tail(q)]

\* `if current_recording.is_none()` of the Start arm.
StartGuardAlways(cur) == TRUE
StartGuard(cur) == cur = None

\* What the Start arm leaves in current_recording after start_recording
\* returned with outcome o for branch b: Ok(active) stores it, Err only prints.
StoredAfterStartAlways(b, o) == Some(ActiveRecording(b))
StoredAfterStart(b, o) == IF o = "ok" THEN Some(ActiveRecording(b)) ELSE None

\* Supervisor position after the Err arm: the while-let loop goes on.
AfterStartErrBreak == "exiting"
AfterStartErr == "drain"

\* current_recording after `current_recording.take()`.
AfterTakeKeep(cur) == cur
AfterTake(cur) == None

\* The thread that runs the delayed cleanup: std::thread::spawn in the probe.
CleanupThreadInline == StreamingThread
CleanupThread == WorkerThread

\* pipeline.remove(&bin)
RemoveBinForgotten(bs, b) == bs
RemoveBin(bs, b) == bs \ {b}

\* start_recording for the b-th call, returning at outcome o. Every step before
\* the failing one has taken effect; nothing is undone on the way out.
start_recording(b, o) ==
    /\ bins'    = IF Rank(o) > 2 THEN bins \cup {b} ELSE bins
    /\ v_ghost' = IF Rank(o) > 3 THEN v_ghost \cup {b} ELSE v_ghost
    /\ a_ghost' = IF Rank(o) > 4 THEN a_ghost \cup {b} ELSE a_ghost
    /\ v_pads'  = IF Rank(o) >= 5 THEN v_pads \cup {b} ELSE v_pads
    /\ v_links' = IF Rank(o) > 5 THEN v_links \cup {b} ELSE v_links
    /\ a_pads'  = IF Rank(o) >= 6 THEN a_pads \cup {b} ELSE a_pads
    /\ a_links' = IF Rank(o) > 6 THEN a_links \cup {b} ELSE a_links
    /\ playing' = IF Rank(o) > 7 THEN playing \cup {b} ELSE playing
    /\ eos' = eos
    /\ mutlog' = mutlog
        \cup (IF Rank(o) > 2 THEN {<<"insert", SupervisorThread>>} ELSE {})
        \cup (IF Rank(o) >= 5 THEN {<<"request", SupervisorThread>>} ELSE {})
        \cup (IF Rank(o) > 5 THEN {<<"link", SupervisorThread>>} ELSE {})

\* pad.unlink(&ghost_pad) on the set of linked tee pads
UnlinkForgotten(ls, b) == ls
Unlink(ls, b) == ls \ {b}

\* The armed probes after the callback returned PadProbeReturn::Remove.
AfterProbeKeep(ps, b) == ps
AfterProbe(ps, b) == ps \ {b}

\* The statements of the probe callback, in program order, run by thread thr.
ProbeSteps(thr) ==
    << <<"unlink_v", thr>>, <<"unlink_a", thr>>, <<"eos", thr>>, <<"spawn", thr>> >>

\* The statements of the spawned cleanup closure, in program order.
WorkerStepsRemoveFirst ==
    << <<"sleep", CleanupThread>>, <<"remove", CleanupThread>>, <<"null", CleanupThread>>,
       <<"release_v", CleanupThread>>, <<"release_a", CleanupThread>> >>
WorkerSteps ==
    << <<"sleep", CleanupThread>>, <<"null", CleanupThread>>,
       <<"release_v", CleanupThread>>, <<"release_a", CleanupThread>>,
       <<"remove", CleanupThread>> >>

\* The IDLE probe callback of stop_recording for branch b, run by thread thr:
\* unlink video and audio, send EOS into the bin, spawn the cleanup worker,
\* return PadProbeReturn::Remove.
IdleProbe(b, thr) ==
    /\ v_links' = Unlink(v_links, b)
    /\ a_links' = Unlink(a_links, b)
    /\ eos' = eos \cup {b}
    /\ workers' = workers \cup {b}
    /\ probes' = AfterProbe(probes, b)
    /\ mutlog' = mutlog \cup {<<"unlink", thr>>}
    /\ tlog' = [tlog EXCEPT ![b] = @ \o ProbeSteps(thr)]
    /\ UNCHANGED <<bins, playing, v_ghost, a_ghost, v_pads, a_pads>>

\* stop_recording(active) called on thread thr: add_probe(IDLE) on the video
\* tee pad. GStreamer runs the callback at once, on the calling thread, when
\* the pad is idle; otherwise the probe stays armed for the streaming thread.
stop_recording(active, thr) ==
    \/ /\ probes' = probes \cup {active.bin}
       /\ UNCHANGED <<graphVars, workers, mutlog, tlog>>
    \/ IdleProbe(active.bin, thr)

\* Start arm, no recording held: start_recording is called; Ok stores the
\* handle, Err is printed and the loop goes on.
StartAttach ==
    /\ pc = "drain"
    /\ rec_cmd_rx # <<>>
    /\ TryRecv(rec_cmd_rx).cmd = "Start"
    /\ StartGuard(current_recording)
    /\ \E o \in StartOutcomes :
         LET b == start_calls + 1 IN
         /\ start_recording(b, o)
         /\ current_recording' = StoredAfterStart(b, o)
         /\ attached_ever' = IF o = "ok" THEN attached_ever \cup {b} ELSE attached_ever
         /\ err_log' = IF o = "ok" THEN err_log ELSE err_log + 1
         /\ last_op' = IF o = "ok" THEN "start_ok" ELSE "start_err"
         /\ pc' = IF o = "ok" THEN "drain" ELSE AfterStartErr
    /\ start_calls' = start_calls + 1
    /\ handled' = Append(handled, TryRecv(rec_cmd_rx).cmd)
    /\ rec_cmd_rx' = TryRecv(rec_cmd_rx).rest
    /\ UNCHANGED <<submitted, pipeline_state, tearVars, teardowns, stop_started, exit_held>>
    /\ UNCHANGED <<tlog, pollVars, envVars>>

\* Start arm while a recording is held: the command is dropped.
StartIgnored ==
    /\ pc = "drain"
    /\ rec_cmd_rx # <<>>
    /\ TryRecv(rec_cmd_rx).cmd = "Start"
    /\ ~StartGuard(current_recording)
    /\ handled' = Append(handled, TryRecv(rec_cmd_rx).cmd)
    /\ rec_cmd_rx' = TryRecv(rec_cmd_rx).rest
    /\ last_op' = "start_ignored"
    /\ UNCHANGED <<submitted, supVars, graphVars, tearVars, start_calls, attached_ever,
                   teardowns, stop_started, err_log, exit_held, mutlog>>
    /\ UNCHANGED <<tlog, pollVars, envVars>>

\* Stop arm with a recording held: take() the handle and stop_recording it.
StopDetach ==
    /\ pc = "drain"
    /\ rec_cmd_rx # <<>>
    /\ TryRecv(rec_cmd_rx).cmd = "Stop"
    /\ current_recording # None
    /\ LET active == current_recording[1] IN
         /\ stop_recording(active, SupervisorThread)
         /\ teardowns' = Append(teardowns, active.bin)
         /\ stop_started' = stop_started \cup {active.bin}
    /\ current_recording' = AfterTake(current_recording)
    /\ handled' = Append(handled, TryRecv(rec_cmd_rx).cmd)
    /\ rec_cmd_rx' = TryRecv(rec_cmd_rx).rest
    /\ last_op' = "stop"
    /\ UNCHANGED <<submitted, pc, pipeline_state, start_calls, attached_ever, err_log,
                   exit_held>>
    /\ UNCHANGED <<pollVars, envVars>>

\* Stop arm with nothing held: take() yields None and the arm does nothing.
StopIgnored ==
    /\ pc = "drain"
    /\ rec_cmd_rx # <<>>
    /\ TryRecv(rec_cmd_rx).cmd = "Stop"
    /\ current_recording = None
    /\ handled' = Append(handled, TryRecv(rec_cmd_rx).cmd)
    /\ rec_cmd_rx' = TryRecv(rec_cmd_rx).rest
    /\ last_op' = "stop_ignored"
    /\ UNCHANGED <<submitted, supVars, graphVars, tearVars, start_calls, attached_ever,
                   teardowns, stop_started, err_log, exit_held, mutlog>>
    /\ UNCHANGED <<tlog, pollVars, envVars>>

\* try_recv() finds the channel empty: the inner while-let ends.
DrainDone ==
    /\ pc = "drain"
    /\ rec_cmd_rx = <<>>
    /\ pc' = "poll"
    /\ UNCHANGED <<chanVars, current_recording, pipeline_state, graphVars, tearVars,
                   histVars, mutlog>>
    /\ UNCHANGED <<tlog, pollVars, envVars>>

\* bus.timed_pop(10 ms) returns: nothing after the timeout, or the oldest
\* message on the bus.
TimedPop ==
    /\ pc = "poll"
    /\ \E m \in BusPolls : msg' = m
    /\ pc' = "polled"
    /\ UNCHANGED <<chanVars, current_recording, pipeline_state, graphVars, tearVars,
                   histVars, mutlog>>
    /\ UNCHANGED <<tlog, null_calls, envVars>>

\* timed_pop timed out or returned a message the match ignores: next iteration.
PollContinue ==
    /\ pc = "polled"
    /\ ~IsFatal(msg)
    /\ pc' = "drain"
    /\ msg' = "none"
    /\ UNCHANGED <<chanVars, current_recording, pipeline_state, graphVars, tearVars,
                   histVars, mutlog>>
    /\ UNCHANGED <<tlog, null_calls, envVars>>

\* timed_pop returned Error or Eos: break.
PollFatal ==
    /\ pc = "polled"
    /\ IsFatal(msg)
    /\ pc' = "exiting"
    /\ msg' = "none"
    /\ UNCHANGED <<chanVars, current_recording, pipeline_state, graphVars, tearVars,
                   histVars, mutlog>>
    /\ UNCHANGED <<tlog, null_calls, envVars>>

\* After the loop: stop_recording the held handle, if any, then
\* pipeline.set_state(Null); the closure returns.
Shutdown ==
    /\ pc = "exiting"
    /\ exit_held' = current_recording
    /\ IF current_recording # None
         THEN LET active == current_recording[1] IN
                /\ stop_recording(active, SupervisorThread)
                /\ teardowns' = Append(teardowns, active.bin)
         ELSE UNCHANGED <<graphVars, tearVars, mutlog, teardowns, tlog>>
    /\ current_recording' = AfterTake(current_recording)
    /\ pipeline_state' = "Null"
    /\ null_calls' = null_calls + 1
    /\ pc' = "done"
    /\ UNCHANGED <<chanVars, handled, start_calls, attached_ever, stop_started, err_log,
                   last_op>>
    /\ UNCHANGED <<msg, envVars>>

\* The streaming thread reaches an idle point of the tee pad: the armed probe
\* of branch b runs there.
ProbeFire(b) ==
    /\ b \in probes
    /\ IdleProbe(b, StreamingThread)
    /\ UNCHANGED <<chanVars, supVars, histVars, pollVars, envVars>>

\* The cleanup worker of branch b after its 600 ms sleep: bin to Null, release
\* both request pads, remove the bin from the pipeline.
CleanupWorker(b) ==
    /\ b \in workers
    /\ playing' = playing \ {b}
    /\ v_pads' = v_pads \ {b}
    /\ a_pads' = a_pads \ {b}
    /\ bins' = RemoveBin(bins, b)
    /\ workers' = workers \ {b}
    /\ mutlog' = mutlog \cup {<<"release", CleanupThread>>, <<"remove", CleanupThread>>}
    /\ tlog' = [tlog EXCEPT ![b] = @ \o WorkerSteps]
    /\ UNCHANGED <<pollVars, envVars>>
    /\ UNCHANGED <<chanVars, supVars, histVars, v_ghost, a_ghost, v_links, a_links, eos,
                   probes>>

Next ==
    \/ \E c \in RecordCommand : Submit(c)
    \/ StartAttach
    \/ StartIgnored
    \/ StopDetach
    \/ StopIgnored
    \/ DrainDone
    \/ TimedPop
    \/ PollContinue
    \/ PollFatal
    \/ Shutdown
    \/ \E b \in BinIds : ProbeFire(b)
    \/ \E b \in BinIds : CleanupWorker(b)

Spec == Init /\ [][Next]_vars

\* The streaming thread keeps running pushes to completion and the spawned
\* worker threads are scheduled: an armed probe fires, a sleeping worker wakes.
SpecFair ==
    /\ Spec
    /\ \A b \in BinIds : WF_vars(ProbeFire(b))
    /\ \A b \in BinIds : WF_vars(CleanupWorker(b))

(***************************************************************************)
(* The control surface: CameraApp::update, record key                      *)
(***************************************************************************)

\* The command update() sends when R is pressed.
KeyCmdSwapped(rec) == IF rec THEN "Start" ELSE "Stop"
KeyCmd(rec) == IF rec THEN "Stop" ELSE "Start"

\* is_recording after the send.
FlipForgotten(rec) == rec
FlipRecording(rec) == ~rec

\* R is pressed: send Stop or Start, flip is_recording. The result of send is
\* dropped (`let _ =`): once the supervisor closure has returned the receiver is
\* gone, send fails and nothing is queued, and the flag flips all the same.
KeyPressR ==
    /\ Len(ui_sent) < MaxCmds
    /\ LET c == KeyCmd(is_recording) IN
         /\ ui_sent' = Append(ui_sent, c)
         /\ IF pc # "done"
              THEN /\ rec_cmd_rx' = Append(rec_cmd_rx, c)
                   /\ submitted' = Append(submitted, c)
              ELSE UNCHANGED chanVars
    /\ is_recording' = FlipRecording(is_recording)
    /\ UNCHANGED <<supVars, graphVars, tearVars, histVars, mutlog, tlog, pollVars, dispVars>>

\* The application: the UI is the only holder of the sender. The Start arm
\* never finds a recording held there (StartNeverFindsHeld, part of C17), so
\* StartIgnored has no step to contribute.
NextApp ==
    \/ KeyPressR
    \/ StartAttach
    \/ StopDetach
    \/ StopIgnored
    \/ DrainDone
    \/ TimedPop
    \/ PollContinue
    \/ PollFatal
    \/ Shutdown
    \/ \E b \in BinIds : ProbeFire(b)
    \/ \E b \in BinIds : CleanupWorker(b)

SpecApp == Init /\ [][NextApp]_vars

(***************************************************************************)
(* The shared cells: frame slot and audio level                            *)
(***************************************************************************)

\* Levels a writer may store.
AudioLevels == {-60, -30, 0}

\* `*buffer.lock() = Some(color_image)`
PublishKeepOld(slot, f) == IF slot = None THEN Some(f) ELSE slot
PublishInto(slot, f) == Some(f)

\* What `frame_buffer.lock().take()` leaves in the slot.
TakeSlotPeek(slot) == slot
TakeSlot(slot) == None

\* The appsink's new_sample callback for the next sample: on success the
\* converted frame replaces the slot's content; pull_sample, buffer() or
\* map_readable failing returns Err before the store.
NewSample ==
    /\ pipeline_state = "Playing"
    /\ produced < MaxFrames
    /\ produced' = produced + 1
    /\ \E ok \in BOOLEAN :
         IF ok
           THEN /\ frame_buffer' = PublishInto(frame_buffer, produced + 1)
                /\ published' = produced + 1
                /\ dropped' = IF frame_buffer # None
                                THEN dropped \cup {frame_buffer[1]} ELSE dropped
           ELSE UNCHANGED <<frame_buffer, published, dropped>>
    /\ UNCHANGED <<texture, audio_level, current_level, ui_pc, last_take>>
    /\ UNCHANGED <<chanVars, supVars, graphVars, tearVars, histVars, mutlog, tlog,
                   pollVars, uiVars>>

\* A writer stores a new audio level.
PublishAudioLevel(l) ==
    /\ l # audio_level
    /\ audio_level' = l
    /\ UNCHANGED <<frame_buffer, texture, current_level, ui_pc, produced, published,
                   last_take, dropped>>
    /\ UNCHANGED <<chanVars, supVars, graphVars, tearVars, histVars, mutlog, tlog,
                   pollVars, uiVars>>

\* update(): `let current_level = *self.audio_level.lock();`
ReadAudioLevel ==
    /\ ui_pc = "level"
    /\ current_level' = Some(audio_level)
    /\ ui_pc' = "frame"
    /\ UNCHANGED <<frame_buffer, texture, audio_level, produced, published, last_take,
                   dropped>>
    /\ UNCHANGED <<chanVars, supVars, graphVars, tearVars, histVars, mutlog, tlog,
                   pollVars, uiVars>>

\* update(): `if let Some(image) = self.frame_buffer.lock().take()` loads the
\* image into the texture.
TakeFrame ==
    /\ ui_pc = "frame"
    /\ frame_buffer' = TakeSlot(frame_buffer)
    /\ texture' = IF frame_buffer # None THEN frame_buffer ELSE texture
    /\ last_take' = Some([got |-> frame_buffer, published |-> published])
    /\ ui_pc' = "level"
    /\ UNCHANGED <<audio_level, current_level, produced, published, dropped>>
    /\ UNCHANGED <<chanVars, supVars, graphVars, tearVars, histVars, mutlog, tlog,
                   pollVars, uiVars>>

NextDisplay ==
    \/ NewSample
    \/ \E l \in AudioLevels : PublishAudioLevel(l)
    \/ ReadAudioLevel
    \/ TakeFrame

SpecDisplay == Init /\ [][NextDisplay]_vars

(***************************************************************************)
(* Properties                                                              *)
(***************************************************************************)

Range(q) == {q[i] : i \in 1..Len(q)}

\* Branches attached by a successful start_recording and not yet handed to
\* stop_recording: the ActiveRecording handles that exist.
LiveHandles == attached_ever \ Range(teardowns)

\* The step receives command c from the channel.
StepHandles(c) == handled' = Append(handled, c)

\* All of branch b's teardown has happened.
TornDown(b) ==
    /\ b \notin probes /\ b \notin workers
    /\ b \notin v_links /\ b \notin a_links
    /\ b \in eos
    /\ b \notin playing
    /\ b \notin v_pads /\ b \notin a_pads
    /\ b \notin bins

StartStartStopStop == <<"Start", "Start", "Stop", "Stop">>

\* C1: at every instant at most one ActiveRecording handle exists and it is the
\* one current_recording holds (none exists when current_recording is empty);
\* start_recording is called only while current_recording is empty.
C1_AtMostOneActiveRecording ==
    /\ [](/\ Cardinality(LiveHandles) <= 1
          /\ (current_recording = None => LiveHandles = {})
          /\ (current_recording # None => LiveHandles = {current_recording[1].bin}))
    /\ [][start_calls' # start_calls => current_recording = None]_vars

\* A second recording is held while the teardown of an earlier one is pending.
C1_Witness ==
    /\ current_recording # None
    /\ Len(teardowns) >= 1
    /\ (probes # {} \/ workers # {})

\* C2: a Start received while a recording is held changes nothing but the
\* channel: no start_recording call, no graph change, no tee pad requested, the
\* held handle stays, and exactly one branch is attached.
C2_SecondStartIgnored ==
    [][(StepHandles("Start") /\ current_recording # None) =>
         /\ UNCHANGED <<current_recording, graphVars, tearVars, mutlog>>
         /\ UNCHANGED <<start_calls, attached_ever, teardowns, err_log>>
         /\ LiveHandles' = {current_recording[1].bin}]_vars

\* Two Starts in a row were received, the first attached, the second was dropped.
C2_Witness ==
    /\ last_op = "start_ignored"
    /\ Len(handled) >= 2
    /\ handled[Len(handled)] = "Start" /\ handled[Len(handled) - 1] = "Start"
    /\ current_recording # None

\* A Stop received while nothing is held changes nothing but the channel.
StopIdleIsNoOp ==
    (StepHandles("Stop") /\ current_recording = None) =>
        /\ UNCHANGED <<current_recording, graphVars, tearVars, mutlog>>
        /\ UNCHANGED <<start_calls, attached_ever, teardowns, stop_started>>

\* C3 as stated: Stop while idle is a no-op, and once Start, Start, Stop, Stop
\* have been handled exactly one branch was attached and exactly one teardown
\* was started.
C3_Original ==
    /\ [][StopIdleIsNoOp]_vars
    /\ []((submitted = StartStartStopStop /\ handled = submitted) =>
            (Cardinality(attached_ever) = 1 /\ Len(teardowns) = 1))

\* C3 (amended): Stop while idle is a no-op; once Start, Start, Stop, Stop have
\* been handled at most one branch was attached and as many teardowns were
\* started as branches were attached, exactly one when an attach succeeded
\* (always so when the first Start's attach succeeded).
C3_StopIdleNoOp ==
    /\ [][StopIdleIsNoOp]_vars
    /\ []((submitted = StartStartStopStop /\ handled = submitted) =>
            /\ Cardinality(attached_ever) <= 1
            /\ Len(teardowns) = Cardinality(attached_ever)
            /\ Range(teardowns) = attached_ever
            /\ (start_calls = 1 <=> 1 \in attached_ever)
            /\ (1 \in attached_ever => Len(teardowns) = 1))

\* Start, Start, Stop, Stop all handled, the first Start attached, the last
\* Stop found nothing held.
C3_Witness ==
    /\ handled = StartStartStopStop
    /\ last_op = "stop_ignored"
    /\ attached_ever = {1}
    /\ start_calls = 1

\* C4 as stated: a start_recording that returns Err leaves the graph as it was
\* before the call.
C4_RollbackOnFailure ==
    [][(StepHandles("Start") /\ last_op' = "start_err") => UNCHANGED graphVars]_vars

\* C5 as stated: when the pipeline has been set to Null after the loop exited
\* with a recording held, that branch's teardown is complete.
C5_SyncTeardownAtShutdown ==
    (pipeline_state = "Null" /\ exit_held # None) => TornDown(exit_held[1].bin)

\* C6 as stated: every mutation of the graph topology is made by the
\* supervisor thread.
C6_Original == \A e \in mutlog : e[2] = SupervisorThread

\* C6 (amended): insert, request and link are made by the supervisor thread
\* only; unlink is made by the thread that runs the idle probe (the streaming
\* thread, or the supervisor when the pad is idle at add_probe); release and
\* remove are made by the cleanup worker thread only.
C6_MutationThreads ==
    \A e \in mutlog :
        /\ e[1] \in {"insert", "request", "link"} => e[2] = SupervisorThread
        /\ e[1] = "unlink" => e[2] \in {StreamingThread, SupervisorThread}
        /\ e[1] \in {"release", "remove"} => e[2] = WorkerThread

\* A whole attach and detach has happened, with the probe run by the streaming
\* thread.
C6_Witness ==
    /\ <<"link", SupervisorThread>> \in mutlog
    /\ <<"unlink", StreamingThread>> \in mutlog
    /\ <<"remove", WorkerThread>> \in mutlog

\* C7: the commands received so far, followed by those still queued, are the
\* commands submitted, in submission order: none lost, repeated or reordered.
C7_CommandsInOrder == submitted = handled \o rec_cmd_rx

\* Different commands have been received and different ones are still queued.
C7_Witness ==
    /\ Len(handled) >= 2 /\ handled[1] # handled[2]
    /\ Len(rec_cmd_rx) >= 2 /\ rec_cmd_rx[1] # rec_cmd_rx[2]

\* C8: a teardown started by a Stop command completes: the probe fires and the
\* branch ends unlinked, sent EOS, stopped, its tee pads released, removed.
C8_TeardownCompletes ==
    \A b \in BinIds : (b \in stop_started) ~> TornDown(b)

\* A teardown started by Stop has completed although the supervisor has
\* shut the pipeline down.
C8_Witness ==
    \E b \in stop_started : TornDown(b) /\ pipeline_state = "Null"

\* C9 as stated: once the pipeline is no longer Playing, no teardown started by
\* a Stop is pending and no such branch is still in the graph.
C9_BranchNestedInPlaying ==
    pipeline_state # "Playing" =>
        \A b \in stop_started : b \notin probes /\ b \notin workers /\ b \notin bins

\* C10: a Start whose start_recording fails is reported, leaves the supervisor
\* in its loop with the pipeline Playing and current_recording empty; and every
\* Start received while current_recording is empty calls start_recording.
C10_FailedStartIsLocal ==
    /\ [][/\ (StepHandles("Start") /\ last_op' = "start_err") =>
               /\ err_log' = err_log + 1
               /\ current_recording = None /\ current_recording' = None
               /\ pc' = "drain"
               /\ pipeline_state' = "Playing"
          /\ (StepHandles("Start") /\ current_recording = None) =>
               start_calls' = start_calls + 1]_vars
    /\ [](last_op = "start_err" => current_recording = None)

\* A Start failed and a later Start attached a recording that is now held.
C10_Witness ==
    /\ err_log >= 1
    /\ current_recording # None
    /\ current_recording[1].bin >= 2

\* C11: the slot, when full, holds the frame published last, and a take
\* returns either nothing or the frame that was the last one published when
\* it ran: never an older one.
C11_TakeReturnsLatest ==
    /\ (frame_buffer # None => frame_buffer = Some(published))
    /\ (last_take # None =>
          \/ last_take[1].got = None
          \/ last_take[1].got = Some(last_take[1].published))

\* A take returned a frame that had overwritten an unread older one.
C11_Witness ==
    /\ last_take # None
    /\ last_take[1].got # None
    /\ last_take[1].got[1] >= 2
    /\ (last_take[1].got[1] - 1) \in dropped

InLoop(p) == p \in {"drain", "poll", "polled"}

\* C12: the supervisor leaves its loop only from the match on a polled Error
\* or Eos, and always then; a timeout or any other message sends it back to
\* the command drain; set_state(Null) is called once, after the loop.
C12_LoopExitsOnFatalOnly ==
    /\ [][/\ (InLoop(pc) /\ ~InLoop(pc')) =>
               (pc = "polled" /\ msg \in {"Error", "Eos"} /\ pc' = "exiting")
          /\ (pc = "polled" /\ pc' # pc /\ msg \in {"Error", "Eos"}) => pc' = "exiting"
          /\ (pc = "polled" /\ pc' # pc /\ msg \in {"timeout", "other"}) => pc' = "drain"
          /\ (null_calls' # null_calls) => (pc = "exiting" /\ pc' = "done")]_vars
    /\ [](/\ (InLoop(pc) \/ pc = "exiting") => (null_calls = 0 /\ pipeline_state = "Playing")
          /\ pc = "done" => (null_calls = 1 /\ pipeline_state = "Null"))

\* The loop went on after a failed Start and after a Stop, and ended later.
C12_Witness ==
    /\ pc = "done"
    /\ err_log >= 1
    /\ \E i \in 1..Len(handled) : handled[i] = "Stop"
    /\ null_calls = 1

StepNames(q) == [i \in 1..Len(q) |-> q[i][1]]

TeardownOrder ==
    <<"unlink_v", "unlink_a", "eos", "spawn", "sleep", "null", "release_v", "release_a",
      "remove">>

IsPrefix(p, q) == Len(p) <= Len(q) /\ p = SubSeq(q, 1, Len(p))

\* C13: the steps of a branch's teardown happen in the order unlink video,
\* unlink audio, send EOS, spawn the worker, sleep, bin to Null, release the
\* video pad, release the audio pad, remove the bin.
C13_TeardownOrder ==
    \A b \in BinIds :
        /\ IsPrefix(StepNames(tlog[b]), TeardownOrder)
        /\ (b \in workers => StepNames(tlog[b]) = SubSeq(TeardownOrder, 1, 4))

\* A teardown has run through all of its steps.
C13_Witness ==
    \E b \in BinIds : Len(tlog[b]) = Len(TeardownOrder) /\ b \notin bins

Count(q, name) == Cardinality({i \in 1..Len(q) : q[i][1] = name})

\* C14: per teardown the probe runs at most once: at most one unlink of each
\* pad, one EOS, one worker; once it has run it is no longer armed; the sleep
\* is done by the worker thread, never by the thread that ran the probe.
C14_ProbeFiresOnce ==
    \A b \in BinIds :
        /\ \A n \in {"unlink_v", "unlink_a", "eos", "spawn"} : Count(tlog[b], n) <= 1
        /\ (Count(tlog[b], "eos") = 1 => b \notin probes)
        /\ \A i \in 1..Len(tlog[b]) :
             tlog[b][i][1] = "sleep" =>
                 /\ tlog[b][i][2] = WorkerThread
                 /\ tlog[b][i][2] # tlog[b][1][2]

\* A probe armed by stop_recording has fired on the streaming thread and its
\* worker has finished.
C14_Witness ==
    \E b \in BinIds :
        /\ Len(tlog[b]) = Len(TeardownOrder)
        /\ tlog[b][1][2] = StreamingThread

\* C15: taking the frame empties the slot and leaves the audio level alone;
\* reading the audio level leaves the level and the slot alone; with no
\* publish since the last take the slot is empty, so a second take gets nothing.
C15_DestructiveFrameRead ==
    /\ [][/\ (ui_pc = "frame" /\ ui_pc' = "level") =>
               /\ frame_buffer' = None
               /\ audio_level' = audio_level
               /\ (frame_buffer # None => texture' = frame_buffer)
          /\ (ui_pc = "level" /\ ui_pc' = "frame") =>
               /\ audio_level' = audio_level
               /\ current_level' = Some(audio_level)
               /\ frame_buffer' = frame_buffer]_vars
    /\ []((last_take # None /\ last_take[1].published = published) =>
            frame_buffer = None)

\* A take got a frame, the next take, with no publish in between, got nothing;
\* a level other than the initial one was read and is still stored.
C15_Witness ==
    /\ last_take # None
    /\ last_take[1].got = None
    /\ texture # None /\ texture = Some(published)
    /\ audio_level # InitAudioLevel
    /\ current_level = Some(audio_level)

\* Successfully attached branches that are linked to a tee.
LinkedRecordings == (v_links \cup a_links) \cap attached_ever

StartNeverFindsHeld ==
    ~(rec_cmd_rx # <<>> /\ Head(rec_cmd_rx) = "Start" /\ current_recording # None)

\* C17 as stated: with the channel empty, is_recording is true exactly when a
\* recording is held.
C17_Original ==
    rec_cmd_rx = <<>> => (is_recording <=> current_recording # None)

\* C17 (amended): with the channel empty, is_recording false means nothing is
\* held; is_recording true, with the loop running, means a recording is held
\* exactly when the last Start's start_recording succeeded.
C17_FlagFollowsCommands ==
    /\ rec_cmd_rx = <<>> =>
         /\ (~is_recording => current_recording = None)
         /\ ((is_recording /\ InLoop(pc)) =>
               (current_recording # None <=> last_op = "start_ok"))
    /\ StartNeverFindsHeld

\* Start, Stop, Start were sent and handled; the flag and the supervisor agree.
C17_Witness ==
    /\ rec_cmd_rx = <<>>
    /\ Len(handled) >= 3
    /\ is_recording
    /\ current_recording # None

\* C18: the commands the UI sends alternate, Start first, and is_recording is
\* true exactly after a Start; every press sends one command and flips the flag.
C18_CommandsAlternate ==
    /\ [](/\ \A i \in 1..Len(ui_sent) :
               ui_sent[i] = (IF i % 2 = 1 THEN "Start" ELSE "Stop")
          /\ is_recording = (Len(ui_sent) % 2 = 1))
    /\ [][ui_sent' # ui_sent =>
            /\ Len(ui_sent') = Len(ui_sent) + 1
            /\ SubSeq(ui_sent', 1, Len(ui_sent)) = ui_sent
            /\ is_recording' = ~is_recording
            /\ ui_sent'[Len(ui_sent')] = (IF is_recording THEN "Stop" ELSE "Start")]_vars

\* Four presses: Start, Stop, Start, Stop.
C18_Witness ==
    /\ ui_sent = <<"Start", "Stop", "Start", "Stop">>
    /\ ~is_recording

====
